---- MODULE Spec2Model ----
(***************************************************************************)
(* Model of the payment-instruction core: the hand-written tokenizer, the  *)
(* two-form positional grammar, the ordered validation chain and the       *)
(* balance application of parseInstruction, with its helper functions,     *)
(* and of processPaymentInstruction, the service function that calls it.   *)
(*                                                                         *)
(* A JavaScript string is modelled as a sequence of one-character strings  *)
(* (<<"U","S","D">>), so that every character-level helper is computed the *)
(* way the code computes it.  A nullable field is modelled as a sequence   *)
(* of length at most one: Null is <<>>, the value v is <<v>>.              *)
(***************************************************************************)
EXTENDS Integers, Sequences, FiniteSets, TLC

VARIABLES pc, accounts, words, instruction, today, result,
          given, aliases, calls, dates, parses

vars == <<pc, accounts, words, instruction, today, result,
          given, aliases, calls, dates, parses>>

-----------------------------------------------------------------------------
(* Nullable values *)

Null == <<>>
Some(v) == <<v>>
IsNull(o) == Len(o) = 0
Val(o) == o[1]

-----------------------------------------------------------------------------
(* Characters and their codes *)

Digits == <<"0","1","2","3","4","5","6","7","8","9">>
UpperLetters == <<"A","B","C","D","E","F","G","H","I","J","K","L","M",
                  "N","O","P","Q","R","S","T","U","V","W","X","Y","Z">>
LowerLetters == <<"a","b","c","d","e","f","g","h","i","j","k","l","m",
                  "n","o","p","q","r","s","t","u","v","w","x","y","z">>

Range(s) == {s[i] : i \in 1..Len(s)}
IndexOf(s, c) == CHOOSE i \in 1..Len(s) : s[i] = c

\* The other characters the model's inputs use, with their ASCII codes.
\* "\v" (vertical tab) has no TLA+ escape and is written "<VT>".
OtherChars == { <<" ", 32>>, <<"\t", 9>>, <<"\n", 10>>, <<"<VT>", 11>>,
                <<"\f", 12>>, <<"\r", 13>>, <<"!", 33>>, <<"#", 35>>,
                <<"+", 43>>, <<",", 44>>, <<"-", 45>>, <<".", 46>>,
                <<"?", 63>>, <<"@", 64>>, <<"_", 95>> }

charCodeAt(c) ==
    IF c \in Range(Digits) THEN 47 + IndexOf(Digits, c)
    ELSE IF c \in Range(UpperLetters) THEN 64 + IndexOf(UpperLetters, c)
    ELSE IF c \in Range(LowerLetters) THEN 96 + IndexOf(LowerLetters, c)
    ELSE (CHOOSE p \in OtherChars : p[1] = c)[2]

toUpperCaseChar(c) ==
    IF c \in Range(LowerLetters) THEN UpperLetters[IndexOf(LowerLetters, c)]
    ELSE c

toUpperCase(s) == [i \in 1..Len(s) |-> toUpperCaseChar(s[i])]

includes(s, c) == \E i \in 1..Len(s) : s[i] = c

-----------------------------------------------------------------------------
(* Basic validators *)

isPositiveIntegerString(value) ==
    /\ Len(value) # 0
    /\ \A i \in 1..Len(value) :
          ~(charCodeAt(value[i]) < 48 \/ charCodeAt(value[i]) > 57)

SupportedCurrencies == { <<"N","G","N">>, <<"U","S","D">>,
                         <<"G","B","P">>, <<"G","H","S">> }

isSupportedCurrency(code) ==
    /\ Len(code) # 0
    /\ toUpperCase(code) \in SupportedCurrencies

isValidAccountId(id) ==
    /\ Len(id) # 0
    /\ \A i \in 1..Len(id) :
          LET ch == id[i]
              code == charCodeAt(ch)
              isDigit == code >= 48 /\ code <= 57
              isUpper == code >= 65 /\ code <= 90
              isLower == code >= 97 /\ code <= 122
              isAllowedSymbol == ch = "-" \/ ch = "." \/ ch = "@"
          IN  isDigit \/ isUpper \/ isLower \/ isAllowedSymbol

isAllDigits(str) ==
    /\ Len(str) # 0
    /\ \A i \in 1..Len(str) :
          ~(charCodeAt(str[i]) < 48 \/ charCodeAt(str[i]) > 57)

\* parseInt(s, 10) of a string of ASCII digits
RECURSIVE parseInt(_)
parseInt(s) ==
    IF Len(s) = 0 THEN 0
    ELSE 10 * parseInt(SubSeq(s, 1, Len(s) - 1)) + (charCodeAt(s[Len(s)]) - 48)

\* Mutant: the sign of the literal is not looked at
NumberIsPositive_IgnoresSign(s) ==
    LET signed == Len(s) > 0 /\ (s[1] = "+" \/ s[1] = "-")
        body   == IF signed THEN SubSeq(s, 2, Len(s)) ELSE s
        dots   == {i \in 1..Len(body) : body[i] = "."}
    IN  /\ Len(body) > 0
        /\ \A i \in 1..Len(body) : body[i] = "." \/ body[i] \in Range(Digits)
        /\ Cardinality(dots) <= 1
        /\ \E i \in 1..Len(body) : body[i] \in Range(Digits) /\ body[i] # "0"

\* Number(s) > 0 for a string over digits, '.', '+', '-' and characters that
\* belong to no numeric literal: the string is a numeric literal when it is
\* an optional sign followed by digits, digits '.', digits '.' digits or
\* '.' digits; anything else is NaN.  A literal is greater than zero when it
\* has no '-' sign and a non-zero digit.
NumberIsPositive(s) ==
    LET signed == Len(s) > 0 /\ (s[1] = "+" \/ s[1] = "-")
        body   == IF signed THEN SubSeq(s, 2, Len(s)) ELSE s
        dots   == {i \in 1..Len(body) : body[i] = "."}
        wellFormed ==
            /\ Len(body) > 0
            /\ \A i \in 1..Len(body) :
                  body[i] = "." \/ body[i] \in Range(Digits)
            /\ Cardinality(dots) <= 1
            /\ \E i \in 1..Len(body) : body[i] \in Range(Digits)
    IN  /\ wellFormed
        /\ ~(signed /\ s[1] = "-")
        /\ \E i \in 1..Len(body) : body[i] \in Range(Digits) /\ body[i] # "0"

-----------------------------------------------------------------------------
(* Date helpers *)

isLeapYear(year) ==
    (year % 4 = 0 /\ year % 100 # 0) \/ (year % 400 = 0)

getDaysInMonth(year, month) ==
    LET days == << 31, IF isLeapYear(year) THEN 29 ELSE 28, 31, 30, 31, 30,
                   31, 31, 30, 31, 30, 31 >>
    IN  days[month]

\* Date.UTC(year, monthIndex, day) in days since 1970-01-01 (the code's value
\* is this number times 86400000, which keeps the order).  As in JavaScript,
\* a year argument 0..99 stands for 1900 + year.  monthIndex is 0-based.
DaysBeforeYear(y) ==
    365 * (y - 1) + ((y - 1) \div 4) - ((y - 1) \div 100) + ((y - 1) \div 400)

RECURSIVE DaysBeforeMonth(_, _)
DaysBeforeMonth(y, m) ==
    IF m <= 1 THEN 0 ELSE DaysBeforeMonth(y, m - 1) + getDaysInMonth(y, m - 1)

DateUTC(year, monthIndex, day) ==
    LET y == IF year >= 0 /\ year <= 99 THEN 1900 + year ELSE year
    IN  DaysBeforeYear(y) + DaysBeforeMonth(y, monthIndex + 1) + (day - 1)
        - DaysBeforeYear(1970)

InvalidDate == [isValid |-> FALSE, value |-> 0]

parseUtcDateOnly(dateStr) ==
    IF Len(dateStr) # 10 THEN InvalidDate
    ELSE IF dateStr[5] # "-" \/ dateStr[8] # "-" THEN InvalidDate
    ELSE
      LET yearStr  == SubSeq(dateStr, 1, 4)
          monthStr == SubSeq(dateStr, 6, 7)
          dayStr   == SubSeq(dateStr, 9, 10)
      IN  IF ~isAllDigits(yearStr) \/ ~isAllDigits(monthStr) \/ ~isAllDigits(dayStr)
          THEN InvalidDate
          ELSE
            LET year  == parseInt(yearStr)
                month == parseInt(monthStr)
                day   == parseInt(dayStr)
            IN  IF month < 1 \/ month > 12 THEN InvalidDate
                ELSE IF day < 1 \/ day > getDaysInMonth(year, month) THEN InvalidDate
                ELSE [isValid |-> TRUE, value |-> DateUTC(year, month - 1, day)]

\* The clock is a calendar day <<year, month, day>> (month 1..12).
getTodayUtcDateValue(now) == DateUTC(now[1], now[2] - 1, now[3])

-----------------------------------------------------------------------------
(* Whitespace and token helpers *)

isWhitespace(ch) ==
    ch = " " \/ ch = "\t" \/ ch = "\n" \/ ch = "\r" \/ ch = "\f" \/ ch = "<VT>"

RECURSIVE TrimStart(_, _, _)
TrimStart(s, start, end) ==
    IF start <= end /\ isWhitespace(s[start]) THEN TrimStart(s, start + 1, end)
    ELSE start

RECURSIVE TrimEnd(_, _, _)
TrimEnd(s, start, end) ==
    IF end >= start /\ isWhitespace(s[end]) THEN TrimEnd(s, start, end - 1)
    ELSE end

\* The copying loop over s[start..end]: a whitespace character is written as
\* one space when the character before it was not whitespace (inSpace false)
\* and is dropped otherwise; every other character is copied.
Collapse(s, start, end) ==
    LET at   == [k \in 1..(end - start + 1) |-> start + k - 1]
        kept == SelectSeq(at, LAMBDA i :
                    ~isWhitespace(s[i]) \/ i = start \/ ~isWhitespace(s[i - 1]))
    IN  [k \in 1..Len(kept) |-> IF isWhitespace(s[kept[k]]) THEN " " ELSE s[kept[k]]]

normalizeWhitespace(s) ==
    LET start == TrimStart(s, 1, Len(s))
        end   == TrimEnd(s, start, Len(s))
    IN  IF start > end THEN <<>>
        ELSE Collapse(s, start, end)

removeTrailingPunctuation(s) ==
    IF Len(s) = 0 THEN s
    ELSE LET last == s[Len(s)]
         IN  IF last = "." \/ last = "," \/ last = "!" \/ last = "?"
             THEN SubSeq(s, 1, Len(s) - 1)
             ELSE s

\* normalized.split(' '): the pieces between single spaces, empty ones included
Split(s) ==
    LET cuts  == {0, Len(s) + 1} \cup {i \in 1..Len(s) : s[i] = " "}
        cut   == [k \in 1..Cardinality(cuts) |->
                    CHOOSE p \in cuts : Cardinality({q \in cuts : q < p}) = k - 1]
    IN  [k \in 1..(Cardinality(cuts) - 1) |-> SubSeq(s, cut[k] + 1, cut[k + 1] - 1)]

tokenizeNormalizedInstruction(normalized) ==
    IF Len(normalized) = 0 THEN <<>>
    ELSE LET raw == Split(normalized)
         IN  SelectSeq(raw, LAMBDA t : t # <<>>)

-----------------------------------------------------------------------------
(* parseInstruction *)

\* The texts of PaymentMessages, named by their keys.
MALFORMED_INSTRUCTION == "MALFORMED_INSTRUCTION"
MISSING_KEYWORD == "MISSING_KEYWORD"
INVALID_KEYWORD_ORDER == "INVALID_KEYWORD_ORDER"

W_DEBIT == <<"D","E","B","I","T">>
W_CREDIT == <<"C","R","E","D","I","T">>
W_SEND == <<"S","E","N","D">>
W_TRANSFER == <<"T","R","A","N","S","F","E","R">>
W_FROM == <<"F","R","O","M">>
W_TO == <<"T","O">>
W_FOR == <<"F","O","R">>
W_ACCOUNT == <<"A","C","C","O","U","N","T">>
W_ON == <<"O","N">>

\* x || null for a nullable string: null and the empty string both give null
OrNull(o) == IF IsNull(o) THEN Null ELSE IF Len(Val(o)) = 0 THEN Null ELSE o

\* The result object every return statement builds
Result(type, amount, currency, debit, credit, executeBy, status, reason, code, accs) ==
    [ type           |-> type,
      amount         |-> amount,
      currency       |-> currency,
      debit_account  |-> debit,
      credit_account |-> credit,
      execute_by     |-> executeBy,
      status         |-> status,
      status_reason  |-> reason,
      status_code    |-> code,
      accounts       |-> accs ]

makeSY03(reason) ==
    Result(Null, Null, Null, Null, Null, Null, "failed", reason, "SY03", <<>>)

makeSY01(reason) ==
    Result(Null, Null, Null, Null, Null, Null, "failed", reason, "SY01", <<>>)

\* Mutant: a grammar failure carries a status of its own
GrammarFailure_ErrorStatus(type, reason, code) ==
    Result(Some(type), Null, Null, Null, Null, Null, "error", reason, code, <<>>)

\* A grammar failure that reports the type only
GrammarFailure(type, reason, code) ==
    Result(Some(type), Null, Null, Null, Null, Null, "failed", reason, code, <<>>)

\* Mutant: the balances are applied whether or not the transaction is pending
BuildResultAccounts_AlwaysApply(involved, debitAccountId, creditAccountId, amount, isPending) ==
    [ i \in 1..Len(involved) |->
        LET a == [ id             |-> involved[i].id,
                   balance_before |-> involved[i].balance_before,
                   balance        |-> involved[i].balance,
                   currency       |-> toUpperCase(involved[i].currency) ]
        IN  IF a.id = debitAccountId /\ a.id # creditAccountId
            THEN [a EXCEPT !.balance = a.balance - amount]
            ELSE IF a.id = creditAccountId /\ a.id # debitAccountId
            THEN [a EXCEPT !.balance = a.balance + amount]
            ELSE a ]

\* Build accounts result: apply balances only if immediate execution
BuildResultAccounts(involved, debitAccountId, creditAccountId, amount, isPending) ==
    [ i \in 1..Len(involved) |->
        LET a == [ id             |-> involved[i].id,
                   balance_before |-> involved[i].balance_before,
                   balance        |-> involved[i].balance,
                   currency       |-> toUpperCase(involved[i].currency) ]
        IN  IF ~isPending
            THEN IF a.id = debitAccountId /\ a.id # creditAccountId
                 THEN [a EXCEPT !.balance = a.balance - amount]
                 ELSE IF a.id = creditAccountId /\ a.id # debitAccountId
                 THEN [a EXCEPT !.balance = a.balance + amount]
                 ELSE a
            ELSE a ]

\* Mutant: a date equal to the clock's day counts as a future date
IsFutureDate_OrToday(parsedValue, todayVal) == parsedValue >= todayVal

\* parsed.value > todayVal
IsFutureDate(parsedValue, todayVal) == parsedValue > todayVal

\* DT01, the pending decision and the final responses
SettleTransaction(type, amount, currencyUpper, debitAccountId, creditAccountId, dateToken, involved, now) ==
    LET hasDate == ~IsNull(OrNull(dateToken))
        parsed  == IF hasDate THEN parseUtcDateOnly(Val(dateToken)) ELSE InvalidDate
    IN  IF hasDate /\ ~parsed.isValid
        THEN Result(Some(type), Some(amount), Some(currencyUpper),
                    Some(debitAccountId), Some(creditAccountId), dateToken,
                    "failed", "Invalid date format", "DT01", involved)
        ELSE
          LET execute_by == IF hasDate THEN dateToken ELSE Null
              isPending  == hasDate /\ IsFutureDate(parsed.value, getTodayUtcDateValue(now))
              resultAccounts == BuildResultAccounts(involved, debitAccountId,
                                                    creditAccountId, amount, isPending)
          IN  IF isPending
              THEN Result(Some(type), Some(amount), Some(currencyUpper),
                          Some(debitAccountId), Some(creditAccountId), execute_by,
                          "pending", "Transaction scheduled for future execution",
                          "AP01", resultAccounts)
              ELSE Result(Some(type), Some(amount), Some(currencyUpper),
                          Some(debitAccountId), Some(creditAccountId), OrNull(execute_by),
                          "successful", "Transaction executed successfully",
                          "AP00", resultAccounts)

\* Mutant: only the accounts matching the debit id are collected
Involved_DebitOnly(providedAccounts, debitAccountId, creditAccountId) ==
    LET hits == SelectSeq(providedAccounts, LAMBDA a : a.id = debitAccountId)
    IN  [ i \in 1..Len(hits) |->
            [ id             |-> hits[i].id,
              balance        |-> hits[i].balance,
              balance_before |-> hits[i].balance,
              currency       |-> toUpperCase(hits[i].currency) ] ]

\* The lookup loop: the involved records in input order, and the accounts the
\* loop leaves in foundDebit / foundCredit (the last match of each id)
Involved(providedAccounts, debitAccountId, creditAccountId) ==
    LET hits == SelectSeq(providedAccounts,
                   LAMBDA a : a.id = debitAccountId \/ a.id = creditAccountId)
    IN  [ i \in 1..Len(hits) |->
            [ id             |-> hits[i].id,
              balance        |-> hits[i].balance,
              balance_before |-> hits[i].balance,
              currency       |-> toUpperCase(hits[i].currency) ] ]

\* Mutant: the lookup compares the ids without regard to letter case
Found_IgnoreCase(providedAccounts, id) ==
    LET at == {i \in 1..Len(providedAccounts) :
                  toUpperCase(providedAccounts[i].id) = toUpperCase(id)}
    IN  IF at = {} THEN Null
        ELSE Some(providedAccounts[CHOOSE i \in at : \A j \in at : j <= i])

Found(providedAccounts, id) ==
    LET at == {i \in 1..Len(providedAccounts) : providedAccounts[i].id = id}
    IN  IF at = {} THEN Null
        ELSE Some(providedAccounts[CHOOSE i \in at : \A j \in at : j <= i])

\* Mutant: the same-account check is made before the lookup and the currencies
ResolveTransaction_SameFirst(type, amount, currencyUpper, debitAccountId, creditAccountId, dateToken, providedAccounts, now) ==
    LET involved    == Involved(providedAccounts, debitAccountId, creditAccountId)
        foundDebit  == Found(providedAccounts, debitAccountId)
        foundCredit == Found(providedAccounts, creditAccountId)
        Failed(reason, code) ==
            Result(Some(type), Some(amount), Some(currencyUpper),
                   Some(debitAccountId), Some(creditAccountId), OrNull(dateToken),
                   "failed", reason, code, involved)
        AC03 == IsNull(foundDebit) \/ IsNull(foundCredit)
        CU01 == \/ toUpperCase(Val(foundDebit).currency) # toUpperCase(Val(foundCredit).currency)
                \/ toUpperCase(Val(foundDebit).currency) # currencyUpper
        AC02 == debitAccountId = creditAccountId
        AC01 == Val(foundDebit).balance < amount
        Settled == SettleTransaction(type, amount, currencyUpper, debitAccountId,
                                     creditAccountId, dateToken, involved, now)
    IN  IF AC02 THEN Failed("Debit and credit accounts cannot be the same", "AC02")
        ELSE IF AC03 THEN Failed("Account not found", "AC03")
        ELSE IF CU01 THEN Failed("Account currency mismatch", "CU01")
        ELSE IF AC01 THEN Failed("Insufficient funds in debit account", "AC01")
        ELSE Settled

\* Mutant: the funds check is made before the same-account check
ResolveTransaction_FundsBeforeSame(type, amount, currencyUpper, debitAccountId, creditAccountId, dateToken, providedAccounts, now) ==
    LET involved    == Involved(providedAccounts, debitAccountId, creditAccountId)
        foundDebit  == Found(providedAccounts, debitAccountId)
        foundCredit == Found(providedAccounts, creditAccountId)
        Failed(reason, code) ==
            Result(Some(type), Some(amount), Some(currencyUpper),
                   Some(debitAccountId), Some(creditAccountId), OrNull(dateToken),
                   "failed", reason, code, involved)
        AC03 == IsNull(foundDebit) \/ IsNull(foundCredit)
        CU01 == \/ toUpperCase(Val(foundDebit).currency) # toUpperCase(Val(foundCredit).currency)
                \/ toUpperCase(Val(foundDebit).currency) # currencyUpper
        AC02 == debitAccountId = creditAccountId
        AC01 == Val(foundDebit).balance < amount
        Settled == SettleTransaction(type, amount, currencyUpper, debitAccountId,
                                     creditAccountId, dateToken, involved, now)
    IN  IF AC03 THEN Failed("Account not found", "AC03")
        ELSE IF CU01 THEN Failed("Account currency mismatch", "CU01")
        ELSE IF AC01 THEN Failed("Insufficient funds in debit account", "AC01")
        ELSE IF AC02 THEN Failed("Debit and credit accounts cannot be the same", "AC02")
        ELSE Settled

\* Mutant: the date is looked at before the funds, so that a dated request is
\* settled or deferred without the funds check
ResolveTransaction_DateBeforeFunds(type, amount, currencyUpper, debitAccountId, creditAccountId, dateToken, providedAccounts, now) ==
    LET involved    == Involved(providedAccounts, debitAccountId, creditAccountId)
        foundDebit  == Found(providedAccounts, debitAccountId)
        foundCredit == Found(providedAccounts, creditAccountId)
        Failed(reason, code) ==
            Result(Some(type), Some(amount), Some(currencyUpper),
                   Some(debitAccountId), Some(creditAccountId), OrNull(dateToken),
                   "failed", reason, code, involved)
        AC03 == IsNull(foundDebit) \/ IsNull(foundCredit)
        CU01 == \/ toUpperCase(Val(foundDebit).currency) # toUpperCase(Val(foundCredit).currency)
                \/ toUpperCase(Val(foundDebit).currency) # currencyUpper
        AC02 == debitAccountId = creditAccountId
        AC01 == Val(foundDebit).balance < amount
        Settled == SettleTransaction(type, amount, currencyUpper, debitAccountId,
                                     creditAccountId, dateToken, involved, now)
    IN  IF AC03 THEN Failed("Account not found", "AC03")
        ELSE IF CU01 THEN Failed("Account currency mismatch", "CU01")
        ELSE IF AC02 THEN Failed("Debit and credit accounts cannot be the same", "AC02")
        ELSE IF ~IsNull(OrNull(dateToken)) THEN Settled
        ELSE IF AC01 THEN Failed("Insufficient funds in debit account", "AC01")
        ELSE Settled

\* AC03, CU01, AC02, AC01, then the settlement
ResolveTransaction(type, amount, currencyUpper, debitAccountId, creditAccountId, dateToken, providedAccounts, now) ==
    LET involved    == Involved(providedAccounts, debitAccountId, creditAccountId)
        foundDebit  == Found(providedAccounts, debitAccountId)
        foundCredit == Found(providedAccounts, creditAccountId)
        Failed(reason, code) ==
            Result(Some(type), Some(amount), Some(currencyUpper),
                   Some(debitAccountId), Some(creditAccountId), OrNull(dateToken),
                   "failed", reason, code, involved)
    IN  IF IsNull(foundDebit) \/ IsNull(foundCredit)
        THEN Failed("Account not found", "AC03")
        ELSE
          LET debitCurrency  == toUpperCase(Val(foundDebit).currency)
              creditCurrency == toUpperCase(Val(foundCredit).currency)
          IN  IF debitCurrency # creditCurrency \/ debitCurrency # currencyUpper
              THEN Failed("Account currency mismatch", "CU01")
              ELSE IF debitAccountId = creditAccountId
              THEN Failed("Debit and credit accounts cannot be the same", "AC02")
              ELSE IF Val(foundDebit).balance < amount
              THEN Failed("Insufficient funds in debit account", "AC01")
              ELSE SettleTransaction(type, amount, currencyUpper, debitAccountId,
                                     creditAccountId, dateToken, involved, now)

\* Field validations (precedence): AM02, AM01, CU02, AC04
FieldValidation(type, amountToken, currencyToken, debitAccountId, creditAccountId, dateToken, providedAccounts, now) ==
    LET Failed(amount, currency, debit, credit, reason, code) ==
            Result(Some(type), amount, currency, debit, credit, OrNull(dateToken),
                   "failed", reason, code, <<>>)
        debitOrNull  == OrNull(Some(debitAccountId))
        creditOrNull == OrNull(Some(creditAccountId))
    IN  IF includes(amountToken, ".") /\ NumberIsPositive(amountToken)
        THEN Failed(Null, Null, debitOrNull, creditOrNull,
                    "Amount must be a whole number", "AM02")
        ELSE IF ~isPositiveIntegerString(amountToken)
        THEN Failed(Null, Null, debitOrNull, creditOrNull,
                    "Amount must be a positive integer", "AM01")
        ELSE
          LET amount == parseInt(amountToken)
          IN  IF amount <= 0
              THEN Failed(Null, Null, debitOrNull, creditOrNull,
                          "Amount must be a positive integer", "AM01")
              ELSE
                LET currencyUpper == toUpperCase(currencyToken)
                IN  IF ~isSupportedCurrency(currencyUpper)
                    THEN Failed(Some(amount), OrNull(Some(currencyUpper)),
                                debitOrNull, creditOrNull,
                                "Unsupported currency. Only NGN, USD, GBP, and GHS are supported",
                                "CU02")
                    ELSE IF ~isValidAccountId(debitAccountId) \/ ~isValidAccountId(creditAccountId)
                    THEN Failed(Some(amount), Some(currencyUpper),
                                Some(debitAccountId), Some(creditAccountId),
                                "Invalid account ID format", "AC04")
                    ELSE ResolveTransaction(type, amount, currencyUpper, debitAccountId,
                                            creditAccountId, dateToken, providedAccounts, now)

\* Mutant: the CREDIT form takes its ids from the positions of the DEBIT form
MatchGrammar_CreditAsDebit(type, tokens, upperTokens, providedAccounts, now) ==
    LET tokenCount    == Len(tokens)
        hasDateClause == tokenCount = 13
        noDateClause  == tokenCount = 11
        \* tokens[k] of the code is tokens[k + 1] here
        T(k) == tokens[k + 1]
        U(k) == upperTokens[k + 1]
        undefinedAt(k) == k + 1 > tokenCount
        dateToken == IF hasDateClause THEN Some(removeTrailingPunctuation(T(12))) ELSE Null
    IN  IF tokenCount < 11
        THEN Result(Null, Null, Null, Null, Null, Null, "failed",
                    MISSING_KEYWORD, "SY01", <<>>)
        ELSE IF ~noDateClause /\ ~hasDateClause
        THEN GrammarFailure(type, INVALID_KEYWORD_ORDER, "SY02")
        ELSE IF hasDateClause /\ U(11) # W_ON
        THEN GrammarFailure(type, INVALID_KEYWORD_ORDER, "SY02")
        ELSE IF \E k \in 3..10 : undefinedAt(k)
        THEN GrammarFailure(type, MISSING_KEYWORD, "SY01")
        ELSE IF type = W_DEBIT
        THEN IF \/ U(3) # W_FROM \/ U(4) # W_ACCOUNT
                \/ U(6) # W_FOR  \/ U(7) # W_CREDIT
                \/ U(8) # W_TO   \/ U(9) # W_ACCOUNT
             THEN GrammarFailure(type, INVALID_KEYWORD_ORDER, "SY02")
             ELSE FieldValidation(type, T(1), T(2),
                                  removeTrailingPunctuation(T(5)),
                                  removeTrailingPunctuation(T(10)),
                                  dateToken, providedAccounts, now)
        ELSE IF \/ U(3) # W_TO   \/ U(4) # W_ACCOUNT
                \/ U(6) # W_FOR  \/ U(7) # W_DEBIT
                \/ U(8) # W_FROM \/ U(9) # W_ACCOUNT
             THEN GrammarFailure(type, INVALID_KEYWORD_ORDER, "SY02")
             ELSE FieldValidation(type, T(1), T(2),
                                  removeTrailingPunctuation(T(5)),
                                  removeTrailingPunctuation(T(10)),
                                  dateToken, providedAccounts, now)

\* Token count, the ON marker, the template of the type and the extraction
MatchGrammar(type, tokens, upperTokens, providedAccounts, now) ==
    LET tokenCount    == Len(tokens)
        hasDateClause == tokenCount = 13
        noDateClause  == tokenCount = 11
        \* tokens[k] of the code is tokens[k + 1] here
        T(k) == tokens[k + 1]
        U(k) == upperTokens[k + 1]
        undefinedAt(k) == k + 1 > tokenCount
        dateToken == IF hasDateClause THEN Some(removeTrailingPunctuation(T(12))) ELSE Null
    IN  IF tokenCount < 11
        THEN Result(Null, Null, Null, Null, Null, Null, "failed",
                    MISSING_KEYWORD, "SY01", <<>>)
        ELSE IF ~noDateClause /\ ~hasDateClause
        THEN GrammarFailure(type, INVALID_KEYWORD_ORDER, "SY02")
        ELSE IF hasDateClause /\ U(11) # W_ON
        THEN GrammarFailure(type, INVALID_KEYWORD_ORDER, "SY02")
        ELSE IF \E k \in 3..10 : undefinedAt(k)
        THEN GrammarFailure(type, MISSING_KEYWORD, "SY01")
        ELSE IF type = W_DEBIT
        THEN IF \/ U(3) # W_FROM \/ U(4) # W_ACCOUNT
                \/ U(6) # W_FOR  \/ U(7) # W_CREDIT
                \/ U(8) # W_TO   \/ U(9) # W_ACCOUNT
             THEN GrammarFailure(type, INVALID_KEYWORD_ORDER, "SY02")
             ELSE FieldValidation(type, T(1), T(2),
                                  removeTrailingPunctuation(T(5)),
                                  removeTrailingPunctuation(T(10)),
                                  dateToken, providedAccounts, now)
        ELSE IF \/ U(3) # W_TO   \/ U(4) # W_ACCOUNT
                \/ U(6) # W_FOR  \/ U(7) # W_DEBIT
                \/ U(8) # W_FROM \/ U(9) # W_ACCOUNT
             THEN GrammarFailure(type, INVALID_KEYWORD_ORDER, "SY02")
             ELSE FieldValidation(type, T(1), T(2),
                                  removeTrailingPunctuation(T(10)),
                                  removeTrailingPunctuation(T(5)),
                                  dateToken, providedAccounts, now)

\* Mutant: the openers SEND and TRANSFER are not told apart from other words
parseInstruction_NoSendOpener(serviceData, now) ==
    IF IsNull(serviceData.instruction)
    THEN makeSY03(MALFORMED_INSTRUCTION)
    ELSE
      LET normalized  == normalizeWhitespace(Val(serviceData.instruction))
          tokens      == tokenizeNormalizedInstruction(normalized)
          upperTokens == [i \in 1..Len(tokens) |-> toUpperCase(tokens[i])]
      IN  IF Len(tokens) = 0 THEN makeSY03(MALFORMED_INSTRUCTION)
          ELSE
            LET first == upperTokens[1]
            IN  IF first # W_DEBIT /\ first # W_CREDIT
                THEN makeSY03(MALFORMED_INSTRUCTION)
                ELSE MatchGrammar(first, tokens, upperTokens,
                                  serviceData.accounts, now)

\* serviceData.instruction is nullable: Null stands for a value that is not a
\* string.  serviceData.accounts is always an array in the model.
parseInstruction(serviceData, now) ==
    IF IsNull(serviceData.instruction)
    THEN makeSY03(MALFORMED_INSTRUCTION)
    ELSE
      LET normalized  == normalizeWhitespace(Val(serviceData.instruction))
          tokens      == tokenizeNormalizedInstruction(normalized)
          upperTokens == [i \in 1..Len(tokens) |-> toUpperCase(tokens[i])]
      IN  IF Len(tokens) = 0 THEN makeSY03(MALFORMED_INSTRUCTION)
          ELSE
            LET first == upperTokens[1]
            IN  IF first # W_DEBIT /\ first # W_CREDIT
                THEN IF first = W_SEND \/ first = W_TRANSFER
                     THEN makeSY01(MISSING_KEYWORD)
                     ELSE makeSY03(MALFORMED_INSTRUCTION)
                ELSE MatchGrammar(first, tokens, upperTokens,
                                  serviceData.accounts, now)

-----------------------------------------------------------------------------
(* processPaymentInstruction: the service function of the endpoint *)

\* validator.validate against the request spec (accounts[] of id, balance,
\* currency; instruction string): of the requests the model builds, the one
\* the validator rejects is the one whose instruction is not a string
ValidateRequest(params) == ~IsNull(params.instruction)

\* The message of the validator's error, whose text the source does not fix
VALIDATION_ERROR == "validation error"

\* A value used as a condition: null and the empty string are falsy
Truthy(o) == ~IsNull(OrNull(o))

\* Array.prototype.find: the first account with the id, or undefined
Find(accs, id) ==
    LET at == {i \in 1..Len(accs) : accs[i].id = id}
    IN  IF at = {} THEN Null
        ELSE Some(accs[CHOOSE i \in at : \A j \in at : i <= j])

\* The record the wrapper builds for an account of the request
BackfillRecord(acc) ==
    [ id             |-> acc.id,
      balance        |-> acc.balance,
      balance_before |-> acc.balance,
      currency       |-> acc.currency ]

\* Mutant: the wrapper returns the result of parseInstruction as it is
Backfill_None(accs, res) == res

\* Step 3 of the wrapper: a failed result without account records that names
\* both accounts gets the records of the two accounts, when both are found
Backfill(accs, res) ==
    IF /\ res.status = "failed"
       /\ Len(res.accounts) = 0
       /\ Truthy(res.debit_account)
       /\ Truthy(res.credit_account)
    THEN LET debitAccount  == Find(accs, Val(res.debit_account))
             creditAccount == Find(accs, Val(res.credit_account))
         IN  IF ~IsNull(debitAccount) /\ ~IsNull(creditAccount)
             THEN [res EXCEPT !.accounts = << BackfillRecord(Val(debitAccount)),
                                              BackfillRecord(Val(creditAccount)) >>]
             ELSE res
    ELSE res

processPaymentInstruction(params, now) ==
    IF ~ValidateRequest(params)
    THEN Result(Null, Null, Null, Null, Null, Null,
                "failed", VALIDATION_ERROR, "SY03", <<>>)
    ELSE Backfill(params.accounts, parseInstruction(params, now))

\* Mutant: the records of the result are the caller's account objects
RecordAliases_InPlace(providedAccounts, res) ==
    LET named == SelectSeq([i \in 1..Len(providedAccounts) |-> i],
                     LAMBDA i : \/ Some(providedAccounts[i].id) = res.debit_account
                                \/ Some(providedAccounts[i].id) = res.credit_account)
    IN  [k \in 1..Len(res.accounts) |-> IF k <= Len(named) THEN named[k] ELSE 0]

\* Object identity of the account records of a result: for each record, the
\* position in the caller's array of the object it is, or 0 for an object
\* created by the call.  Every record is built by an object literal.
RecordAliases(providedAccounts, res) == [k \in 1..Len(res.accounts) |-> 0]

\* The caller's array after the call: an account object that is also a
\* record of the result holds what the call wrote into that record
SnapshotAfter(providedAccounts, res, als) ==
    [ i \in 1..Len(providedAccounts) |->
        IF \E k \in 1..Len(als) : als[k] = i
        THEN LET k == CHOOSE k \in 1..Len(als) : als[k] = i
             IN  [providedAccounts[i] EXCEPT !.balance = res.accounts[k].balance]
        ELSE providedAccounts[i] ]

-----------------------------------------------------------------------------
(* Inputs: sentences, their rendering as instruction strings, snapshots *)

MaxAccounts == 3
MaxTokens == 14

Str_a == <<"a">>
Str_b == <<"b">>
Str_c == <<"c">>
USD == <<"U","S","D">>
GBP == <<"G","B","P">>

\* The two sentence forms, as token sequences
DebitSentence(amt, cur, debitId, creditId, date) ==
    <<W_DEBIT, amt, cur, W_FROM, W_ACCOUNT, debitId,
      W_FOR, W_CREDIT, W_TO, W_ACCOUNT, creditId>>
    \o (IF IsNull(date) THEN <<>> ELSE <<W_ON, Val(date)>>)

CreditSentence(amt, cur, debitId, creditId, date) ==
    <<W_CREDIT, amt, cur, W_TO, W_ACCOUNT, creditId,
      W_FOR, W_DEBIT, W_FROM, W_ACCOUNT, debitId>>
    \o (IF IsNull(date) THEN <<>> ELSE <<W_ON, Val(date)>>)

Sentence(form, amt, cur, debitId, creditId, date) ==
    IF form = W_DEBIT THEN DebitSentence(amt, cur, debitId, creditId, date)
    ELSE CreditSentence(amt, cur, debitId, creditId, date)

\* The instruction string of a token sequence: the tokens separated by sep,
\* with pad before and after
RECURSIVE Join(_, _)
Join(ws, sep) ==
    IF Len(ws) = 0 THEN <<>>
    ELSE IF Len(ws) = 1 THEN ws[1]
    ELSE ws[1] \o sep \o Join(Tail(ws), sep)

Render(ws, sep, pad) == pad \o Join(ws, sep) \o pad

\* All sequences over S of length at most n
RECURSIVE SeqsUpTo(_, _)
SeqsUpTo(S, n) ==
    IF n = 0 THEN {<<>>}
    ELSE LET shorter == SeqsUpTo(S, n - 1)
         IN  shorter \cup {Append(s, x) : s \in {t \in shorter : Len(t) = n - 1}, x \in S}

Account(id, balance, currency) ==
    [id |-> id, balance |-> balance, currency |-> currency]

\* Calendar days the clock may show
Todays == { <<2026, 11, 2>>, <<2026, 11, 3>> }

\* Date tokens around the clock's day
D_Past == <<"2","0","2","6","-","1","1","-","0","1">>
D_Today == <<"2","0","2","6","-","1","1","-","0","2">>
D_Future == <<"2","0","2","6","-","1","1","-","0","3">>
D_FutureDot == D_Future \o <<".">>
D_NextYear == <<"2","0","2","7","-","0","1","-","0","1">>
D_BadDay == <<"2","0","2","6","-","0","2","-","3","0">>
D_BadForm == <<"2","0","2","6","-","1","1","-","3">>
D_Dot == <<".">>
D_Year99 == <<"0","0","9","9","-","1","2","-","3","1">>

\* Settlement family: grammatical sentences with valid fields, the date and
\* the funds varying, over snapshots that may repeat an id
SettleDates == { Null, Some(D_Past), Some(D_Today), Some(D_Future), Some(D_FutureDot),
                 Some(D_NextYear), Some(D_Year99), Some(D_BadDay), Some(D_BadForm),
                 Some(D_Dot) }

SettleSentences ==
    { Sentence(form, amt, USD, d, c, date) :
        form \in {W_DEBIT, W_CREDIT}, amt \in {<<"3">>, <<"7">>},
        d \in {Str_a, Str_b}, c \in {Str_a, Str_b}, date \in SettleDates }

SettleAccounts ==
    { Account(id, bal, USD) : id \in {Str_a, Str_b}, bal \in {2, 5} }

SettleInputs ==
    { [accounts |-> accs, words |-> ws, instruction |-> Some(Render(ws, <<" ">>, <<>>)),
       today |-> t] :
        accs \in SeqsUpTo(SettleAccounts, MaxAccounts), ws \in SettleSentences,
        t \in Todays }

\* Validation family: grammatical sentences whose amount, currency and ids
\* may each be invalid, over snapshots with two currencies
A_5 == <<"5">>
A_9 == <<"9">>
A_0 == <<"0">>
A_Dec == <<"1", ".", "5">>
A_NegDec == <<"-", "1", ".", "5">>
A_ZeroDec == <<"0", ".", "0">>
A_PlusDec == <<"+", ".", "5">>
A_Text == <<"x">>
A_TwoDots == <<"1", ".", "5", ".", "2">>

ValidateAmounts == {A_5, A_9, A_0, A_Dec, A_NegDec, A_ZeroDec, A_PlusDec, A_Text, A_TwoDots}

Str_usd == <<"u","s","d">>
XYZ == <<"X","Y","Z">>
Str_aHash == <<"a", "#">>

ValidateIds == { <<Str_a, Str_b>>, <<Str_a, Str_a>>, <<Str_c, Str_b>>, <<Str_c, Str_a>>,
                 <<Str_aHash, Str_b>>, <<Str_a, Str_aHash>> }

ValidateSentences ==
    { DebitSentence(amt, cur, ids[1], ids[2], date) :
        amt \in ValidateAmounts, cur \in {USD, Str_usd, XYZ}, ids \in ValidateIds,
        date \in {Null, Some(D_Future), Some(D_BadDay), Some(D_Dot)} }

ValidateAccounts ==
    { Account(Str_a, 5, USD), Account(Str_a, 5, GBP), Account(Str_b, 5, Str_usd) }

ValidateInputs ==
    { [accounts |-> accs, words |-> ws, instruction |-> Some(Render(ws, <<" ">>, <<>>)),
       today |-> <<2026, 11, 2>>] :
        accs \in SeqsUpTo(ValidateAccounts, MaxAccounts), ws \in ValidateSentences }

\* Grammar family: token sequences of every length up to MaxTokens, with
\* different openers and date-clause markers, rendered with different
\* whitespace; and a request whose instruction is not a string
GrammarBase == DebitSentence(A_5, USD, Str_a, Str_b, Some(D_Past))

Str_debit == <<"d","e","b","i","t">>
Str_Credit == <<"C","r","e","d","i","t">>
Str_send == <<"s","e","n","d">>
Str_PAY == <<"P","A","Y">>
Str_on == <<"o","n">>
Str_AT == <<"A","T">>

GrammarOpeners == {W_DEBIT, Str_debit, W_CREDIT, Str_Credit, W_SEND, Str_send,
                   W_TRANSFER, Str_PAY}

\* The base sentence cut or padded to n tokens, with its opener and its
\* token 11 replaced
GrammarWords(n, opener, marker) ==
    [ i \in 1..n |->
        IF i = 1 THEN opener
        ELSE IF i = 12 THEN marker
        ELSE IF i <= Len(GrammarBase) THEN GrammarBase[i]
        ELSE <<"x">> ]

GrammarSentences ==
    { GrammarWords(n, opener, marker) :
        n \in 0..MaxTokens, opener \in GrammarOpeners, marker \in {W_ON, Str_on, Str_AT} }

Separators == { <<" ">>, <<" ", " ">>, <<"\t", "\n">> }
Paddings == { <<>>, <<" ">>, <<"\r", "\f", "<VT>">> }

GrammarSnapshots == { <<>>, <<Account(Str_a, 5, USD), Account(Str_b, 2, USD)>> }

GrammarInputs ==
    { [accounts |-> accs, words |-> ws, instruction |-> Some(Render(ws, sep, pad)),
       today |-> <<2026, 11, 2>>] :
        accs \in GrammarSnapshots, ws \in GrammarSentences,
        sep \in Separators, pad \in Paddings }
    \cup
    { [accounts |-> accs, words |-> <<>>, instruction |-> Null,
       today |-> <<2026, 11, 2>>] : accs \in GrammarSnapshots }

\* Case family: both sentence forms with the opener, the keywords and the
\* currency written in upper case, lower case or capitalised, one keyword
\* possibly replaced by a word that is not the template's, and ids that
\* differ from a snapshot id only in case
Styles == {"upper", "lower", "capital"}

toLowerCaseChar(c) ==
    IF c \in Range(UpperLetters) THEN LowerLetters[IndexOf(UpperLetters, c)]
    ELSE c

WithStyle(w, style) ==
    [i \in 1..Len(w) |->
        IF style = "upper" \/ (style = "capital" /\ i = 1) THEN w[i]
        ELSE toLowerCaseChar(w[i])]

\* Token positions (from 1) of the opener, the currency, the six template
\* keywords and the date marker
KeywordPositions == {4, 5, 7, 8, 9, 10}
StyledPositions == {1, 3, 12} \cup KeywordPositions

Styled(ws, style) ==
    [i \in 1..Len(ws) |->
        IF i \in StyledPositions THEN WithStyle(ws[i], style) ELSE ws[i]]

Str_A == <<"A">>
W_ACCOUNT_Dot == W_ACCOUNT \o <<".">>
W_FOUR == <<"F","O","U","R">>
WrongWords == {W_TO, W_FROM, W_DEBIT, W_CREDIT, W_ACCOUNT_Dot, W_FOUR}

CaseIdPairs == { <<Str_a, Str_b>>, <<Str_A, Str_b>>, <<Str_b, Str_A>> }

CaseBaseSentences ==
    { Sentence(form, <<"3">>, USD, ids[1], ids[2], date) :
        form \in {W_DEBIT, W_CREDIT}, ids \in CaseIdPairs,
        date \in {Null, Some(D_Past)} }

\* The sentences with every keyword in place, and those with one replaced
CaseCleanSentences ==
    { Styled(ws, style) : ws \in CaseBaseSentences, style \in Styles }

CaseBrokenSentences ==
    { Styled([ws EXCEPT ![p] = w], style) :
        ws \in CaseBaseSentences, style \in Styles,
        p \in KeywordPositions, w \in WrongWords } \ CaseCleanSentences

CaseSentences == CaseCleanSentences \cup CaseBrokenSentences

CaseAccounts ==
    { <<Account(Str_a, 5, USD), Account(Str_b, 5, USD)>>,
      <<Account(Str_A, 5, USD), Account(Str_b, 5, Str_usd)>>,
      <<Account(Str_a, 5, USD), Account(Str_A, 5, USD), Account(Str_b, 5, USD)>> }

CaseInputs ==
    { [accounts |-> accs, words |-> ws,
       instruction |-> Some(Render(ws, <<" ">>, <<>>)), today |-> <<2026, 11, 2>>] :
        accs \in CaseAccounts, ws \in CaseSentences }

\* Service family: the requests of the validation and settlement families
\* and a request without an instruction string, over snapshots with
\* lower-case currencies, repeated ids and an account for the id "a#"
ServiceSnapshots ==
    { <<>>,
      <<Account(Str_a, 5, USD)>>,
      <<Account(Str_a, 5, USD), Account(Str_b, 5, Str_usd)>>,
      <<Account(Str_aHash, 5, Str_usd), Account(Str_b, 5, USD), Account(Str_a, 5, GBP)>>,
      <<Account(Str_b, 7, USD), Account(Str_a, 5, Str_usd), Account(Str_a, 9, USD)>> }

ServiceInputs ==
    { [accounts |-> accs, words |-> ws,
       instruction |-> Some(Render(ws, <<" ">>, <<>>)), today |-> <<2026, 11, 2>>] :
        accs \in ServiceSnapshots, ws \in SettleSentences \cup ValidateSentences }
    \cup
    { [accounts |-> accs, words |-> <<>>, instruction |-> Null,
       today |-> <<2026, 11, 2>>] : accs \in ServiceSnapshots }

\* Call family: a few requests with different outcomes, made one after the
\* other in any order, at most MaxCalls of them
MaxCalls == 3

CallSnapshots ==
    { <<Account(Str_a, 5, USD), Account(Str_b, 5, USD)>>,
      <<Account(Str_a, 2, USD), Account(Str_b, 5, USD)>> }

CallSentences ==
    { DebitSentence(<<"3">>, USD, Str_a, Str_b, Null),
      DebitSentence(<<"7">>, USD, Str_a, Str_b, Null),
      CreditSentence(<<"3">>, USD, Str_a, Str_b, Some(D_Future)) }

CallInputs ==
    { [accounts |-> accs, words |-> ws,
       instruction |-> Some(Render(ws, <<" ">>, <<>>)), today |-> <<2026, 11, 2>>] :
        accs \in CallSnapshots, ws \in CallSentences }

\* Date family: strings written from a year, a month and a day, real
\* calendar days or not, and strings that are not of the form YYYY-MM-DD;
\* one string at a time, or two strings of real days to be compared
Pad(n, width) ==
    [i \in 1..width |-> Digits[((n \div (10 ^ (width - i))) % 10) + 1]]

FormatDate(ymd) == Pad(ymd[1], 4) \o <<"-">> \o Pad(ymd[2], 2) \o <<"-">> \o Pad(ymd[3], 2)

DateYears == {0, 99, 100, 1900, 1999, 2000, 2024, 2026}
DateMonths == {0, 1, 2, 4, 12, 13}
DateDays == {0, 1, 28, 29, 30, 31, 32}

Written(ymd) == [text |-> FormatDate(ymd), ymd |-> ymd, shaped |-> TRUE]

\* Ways of writing a day that leave the form YYYY-MM-DD
Misshapen(ymd) ==
    LET t == FormatDate(ymd)
    IN  { [text |-> u, ymd |-> ymd, shaped |-> FALSE] :
            u \in { [t EXCEPT ![5] = "/", ![8] = "/"],
                    [t EXCEPT ![8] = "."],
                    [t EXCEPT ![1] = "x"],
                    [t EXCEPT ![7] = "+"],
                    [t EXCEPT ![10] = " "],
                    SubSeq(t, 1, 9),
                    t \o <<"0">>,
                    <<"0">> \o t,
                    SubSeq(t, 3, 10) \o <<"-", "0">>,
                    SubSeq(t, 1, 8) \o <<"-", "1">>,
                    <<>> } }

DateSingles ==
    { Written(<<y, m, d>>) : y \in DateYears, m \in DateMonths, d \in DateDays }
    \cup UNION { Misshapen(ymd) : ymd \in { <<2026, 11, 3>>, <<2024, 2, 29>> } }

DatePairDays ==
    { <<y, md[1], md[2]>> :
        y \in {0, 99, 100, 1999, 2000, 2026}, md \in { <<1, 1>>, <<2, 28>>, <<12, 31>> } }

DateInputs ==
    { <<d>> : d \in DateSingles }
    \cup { <<Written(d), Written(e)>> : d \in DatePairDays, e \in DatePairDays }

\* Ledger family: ledgers with distinct ids and balances of zero or more,
\* and the requests made against them
Ledgers ==
    { <<Account(Str_a, x, USD), Account(Str_b, y, USD)>> : x, y \in {0, 3, 5} }
    \cup { <<Account(Str_b, x, USD), Account(Str_a, y, USD), Account(Str_c, z, cur)>> :
             x, y \in {0, 3}, z \in {4}, cur \in {USD, GBP} }

LedgerSentences ==
    { Sentence(form, amt, USD, d, c, date) :
        form \in {W_DEBIT, W_CREDIT}, amt \in {<<"3">>, <<"4">>},
        d \in {Str_a, Str_b, Str_c}, c \in {Str_a, Str_b, Str_c},
        date \in {Null, Some(D_Today), Some(D_Future)} }

LedgerInputs ==
    { [accounts |-> accs, words |-> ws,
       instruction |-> Some(Render(ws, <<" ">>, <<>>)), today |-> <<2026, 11, 2>>] :
        accs \in Ledgers, ws \in LedgerSentences }

\* Path family: the requests of the three families above that reach each
\* return statement, over three snapshots
PathSnapshots ==
    { <<>>,
      <<Account(Str_a, 5, USD), Account(Str_b, 5, USD)>>,
      <<Account(Str_a, 5, USD), Account(Str_b, 5, GBP)>> }

PathInputs ==
    GrammarInputs \cup
    { [accounts |-> accs, words |-> ws,
       instruction |-> Some(Render(ws, <<" ">>, <<>>)), today |-> <<2026, 11, 2>>] :
        accs \in PathSnapshots, ws \in SettleSentences \cup ValidateSentences }

-----------------------------------------------------------------------------
(* The state machine: a caller holds a request, calls parseInstruction and    *)
(* takes the result                                                           *)

NoResult == Null

\* A request in the caller's hands: given is the accounts as the caller built
\* them, aliases the identity of the result's records, calls the calls made
\* so far (kept by SpecCalls only), dates and parses the strings handed to
\* parseUtcDateOnly and what it returned (used by SpecDates only)
InitWith(inputs) ==
    /\ pc = "idle"
    /\ result = NoResult
    /\ aliases = <<>>
    /\ calls = <<>>
    /\ dates = <<>>
    /\ parses = <<>>
    /\ \E in \in inputs :
          /\ accounts = in.accounts
          /\ given = in.accounts
          /\ words = in.words
          /\ instruction = in.instruction
          /\ today = in.today

\* Mutant: the involved list is kept between calls and never emptied
CallResult_KeepsInvolved(earlier, serviceData, now) ==
    LET res == parseInstruction(serviceData, now)
    IN  IF Len(earlier) = 0 THEN res
        ELSE [res EXCEPT !.accounts = earlier[Len(earlier)].result.accounts \o @]

\* What a call returns: parseInstruction reads its arguments and the clock,
\* and nothing that an earlier call has left behind
CallResult(earlier, serviceData, now) == parseInstruction(serviceData, now)

\* The request as the caller passes it
Params == [accounts |-> accounts, instruction |-> instruction]

\* The call returns res: the caller holds the result, and the account
\* objects the call has written to hold what it wrote
Returns(res, logged) ==
    /\ result' = Some(res)
    /\ aliases' = RecordAliases(accounts, res)
    /\ accounts' = SnapshotAfter(accounts, res, RecordAliases(accounts, res))
    /\ calls' = IF logged
                THEN Append(calls, [accounts |-> accounts, instruction |-> instruction,
                                    today |-> today, result |-> res])
                ELSE calls
    /\ pc' = "returned"
    /\ UNCHANGED <<words, instruction, today, given, dates, parses>>

\* The caller awaits parseInstruction({accounts, instruction})
CallParse ==
    /\ pc = "idle"
    /\ Returns(CallResult(calls, Params, today), FALSE)

\* The caller awaits processPaymentInstruction({accounts, instruction})
CallProcess ==
    /\ pc = "idle"
    /\ Returns(processPaymentInstruction(Params, today), FALSE)

\* The same call, entered in the list of the calls made
CallLogged ==
    /\ pc = "idle"
    /\ Len(calls) < MaxCalls
    /\ Returns(CallResult(calls, Params, today), TRUE)

\* The caller takes up another request; the clock is left as it is
NewRequest ==
    /\ pc = "idle"
    /\ Len(calls) < MaxCalls
    /\ \E in \in CallInputs :
          /\ accounts' = in.accounts
          /\ given' = in.accounts
          /\ words' = in.words
          /\ instruction' = in.instruction
    /\ UNCHANGED <<pc, today, result, aliases, calls, dates, parses>>

\* The date strings are handed to parseUtcDateOnly, one after the other
ParseDates ==
    /\ pc = "idle"
    /\ parses' = [i \in 1..Len(dates) |-> parseUtcDateOnly(dates[i].text)]
    /\ pc' = "returned"
    /\ UNCHANGED <<accounts, words, instruction, today, result, given, aliases,
                   calls, dates>>

\* The ledger after a result: a settled result (AP00) has its balances
\* written to the accounts of the same id, any other result is put aside
LedgerAfter(ledger, res) ==
    IF res.status_code = "AP00"
    THEN [ i \in 1..Len(ledger) |->
             IF \E k \in 1..Len(res.accounts) : res.accounts[k].id = ledger[i].id
             THEN LET k == CHOOSE k \in 1..Len(res.accounts) :
                               res.accounts[k].id = ledger[i].id
                  IN  [ledger[i] EXCEPT !.balance = res.accounts[k].balance]
             ELSE ledger[i] ]
    ELSE ledger

\* The keeper of a ledger takes the result of a call made with the ledger as
\* the snapshot
WriteBack ==
    /\ pc = "returned"
    /\ accounts' = LedgerAfter(accounts, Val(result))
    /\ result' = NoResult
    /\ aliases' = <<>>
    /\ pc' = "idle"
    /\ UNCHANGED <<words, instruction, today, given, calls, dates, parses>>

\* The next instruction to be run against the ledger
NewInstruction ==
    /\ pc = "idle"
    /\ \E ws \in LedgerSentences :
          /\ words' = ws
          /\ instruction' = Some(Render(ws, <<" ">>, <<>>))
    /\ UNCHANGED <<pc, accounts, today, result, given, aliases, calls, dates, parses>>

\* The caller drops the result; nothing of the call is kept
Discard ==
    /\ pc = "returned"
    /\ result' = NoResult
    /\ aliases' = <<>>
    /\ pc' = "idle"
    /\ UNCHANGED <<accounts, words, instruction, today, given, calls, dates, parses>>

Next == CallParse \/ Discard

Init == InitWith(SettleInputs \cup ValidateInputs \cup GrammarInputs)

Spec == Init /\ [][Next]_vars

SpecSettle == InitWith(SettleInputs) /\ [][Next]_vars

SpecValidate == InitWith(ValidateInputs) /\ [][Next]_vars

SpecGrammar == InitWith(GrammarInputs) /\ [][Next]_vars

SpecCase == InitWith(CaseInputs) /\ [][Next]_vars

SpecPaths == InitWith(PathInputs) /\ [][Next]_vars

\* The endpoint's service function called on the service family
NextService == CallProcess \/ Discard

SpecService == InitWith(ServiceInputs) /\ [][NextService]_vars

\* Calls of parseInstruction one after the other, with changing requests
NextCalls == NewRequest \/ CallLogged \/ Discard

SpecCalls == InitWith(CallInputs) /\ [][NextCalls]_vars

\* parseUtcDateOnly applied to the strings of the date family
InitDates ==
    /\ pc = "idle"
    /\ accounts = <<>> /\ given = <<>>
    /\ words = <<>> /\ instruction = Null /\ today = <<2026, 11, 2>>
    /\ result = NoResult /\ aliases = <<>> /\ calls = <<>>
    /\ dates \in DateInputs
    /\ parses = <<>>

NextDates == ParseDates

SpecDates == InitDates /\ [][NextDates]_vars

\* A ledger run: parseInstruction called again and again with the ledger as
\* the snapshot, the settled results written back
NextLedger == NewInstruction \/ CallParse \/ WriteBack

SpecLedger == InitWith(LedgerInputs) /\ [][NextLedger]_vars

\* Both functions called on the service family
NextBoth == CallParse \/ CallProcess \/ Discard

SpecBoth == InitWith(ServiceInputs) /\ [][NextBoth]_vars

-----------------------------------------------------------------------------
(* What a request says, read from the sentence it was built from *)

Returned == pc = "returned"
R == Val(result)

Grammatical == words \in SettleSentences \cup ValidateSentences

GivenAmount == words[2]
GivenCurrency == words[3]
GivenDebit == IF words[1] = W_DEBIT THEN words[6] ELSE words[11]
GivenCredit == IF words[1] = W_DEBIT THEN words[11] ELSE words[6]
HasDateClause == Len(words) = 13
GivenDate == removeTrailingPunctuation(words[13])

\* The integer a digits-only amount token of the inputs denotes
DigitAmounts == { <<<<"3">>, 3>>, <<<<"7">>, 7>>, <<A_5, 5>>, <<A_9, 9>>, <<A_0, 0>> }
IsDigitAmount(tok) == \E p \in DigitAmounts : p[1] = tok
AmountValue(tok) == (CHOOSE p \in DigitAmounts : p[1] = tok)[2]

\* The amount tokens of the inputs that have a decimal point and denote a
\* number greater than zero
PositiveDecimals == {A_Dec, A_PlusDec}

\* The calendar day a date token of the inputs denotes; a token that is not
\* listed denotes no calendar day
CalendarDays == { <<D_Past, <<2026, 11, 1>>>>, <<D_Today, <<2026, 11, 2>>>>,
                  <<D_Future, <<2026, 11, 3>>>>, <<D_NextYear, <<2027, 1, 1>>>>,
                  <<D_Year99, <<99, 12, 31>>>> }
IsCalendarDate(tok) == \E p \in CalendarDays : p[1] = tok
CalendarDay(tok) == (CHOOSE p \in CalendarDays : p[1] = tok)[2]
LaterDay(d, e) ==
    \/ d[1] > e[1]
    \/ d[1] = e[1] /\ d[2] > e[2]
    \/ d[1] = e[1] /\ d[2] = e[2] /\ d[3] > e[3]

\* The snapshot accounts carrying an id, and the last of them
WithId(id) == {i \in 1..Len(accounts) : accounts[i].id = id}
LastWithId(id) == accounts[CHOOSE i \in WithId(id) : \A j \in WithId(id) : j <= i]
\* The snapshot accounts the request names, in snapshot order
NamedAccounts ==
    SelectSeq(accounts, LAMBDA a : a.id = GivenDebit \/ a.id = GivenCredit)

RECURSIVE SumOf(_, _)
SumOf(recs, field) ==
    IF Len(recs) = 0 THEN 0 ELSE recs[1][field] + SumOf(Tail(recs), field)

-----------------------------------------------------------------------------
(* C1 - C3: the balances of a settled and of a pending transaction *)

\* C1: in every AP00 result the sum of balance over the account records equals
\* the sum of balance_before over them.
C1_BalanceConservation ==
    (Returned /\ R.status_code = "AP00")
        => SumOf(R.accounts, "balance") = SumOf(R.accounts, "balance_before")

\* C2: in every AP01 result each account record has balance = balance_before =
\* the balance of that account in the snapshot (the records are the named
\* snapshot accounts, in snapshot order).
C2_PendingLeavesBalances ==
    (Returned /\ R.status_code = "AP01")
        => /\ Len(R.accounts) = Len(NamedAccounts)
           /\ \A i \in 1..Len(R.accounts) :
                 /\ R.accounts[i].id = NamedAccounts[i].id
                 /\ R.accounts[i].balance = R.accounts[i].balance_before
                 /\ R.accounts[i].balance_before = NamedAccounts[i].balance

C2_Witness ==
    /\ Returned
    /\ R.status_code = "AP01"
    /\ Len(R.accounts) >= 2
    /\ \E i \in 1..Len(R.accounts) : R.accounts[i].balance > 0

\* C3: in every AP00 result the debit account's record has balance =
\* balance_before - amount, the credit account's record has balance =
\* balance_before + amount, each adjustment is applied exactly once (one
\* record debited, one record credited), and the records stand in snapshot
\* order.
C3_AppliedExactlyOnce ==
    (Returned /\ R.status_code = "AP00")
        => LET amount   == AmountValue(GivenAmount)
               debited  == {i \in 1..Len(R.accounts) :
                              R.accounts[i].balance = R.accounts[i].balance_before - amount}
               credited == {i \in 1..Len(R.accounts) :
                              R.accounts[i].balance = R.accounts[i].balance_before + amount}
           IN  /\ Cardinality(debited) = 1
               /\ Cardinality(credited) = 1
               /\ \A i \in debited : R.accounts[i].id = GivenDebit
               /\ \A i \in credited : R.accounts[i].id = GivenCredit
               /\ Len(R.accounts) = Len(NamedAccounts)
               /\ \A i \in 1..Len(R.accounts) :
                     /\ R.accounts[i].id = NamedAccounts[i].id
                     /\ R.accounts[i].balance_before = NamedAccounts[i].balance

-----------------------------------------------------------------------------
(* C4 - C6: the order of the checks, the same-account case, the amount *)

SupportedSpellings == {USD, Str_usd}
BadIds == {Str_aHash}
SameCurrency(x, y) == toUpperCase(x) = toUpperCase(y)

\* Which checks a grammatical request violates, each judged on its own
ViolatesAM02 == GivenAmount \in PositiveDecimals
ViolatesAM01 == ~IsDigitAmount(GivenAmount) \/ AmountValue(GivenAmount) = 0
ViolatesCU02 == GivenCurrency \notin SupportedSpellings
ViolatesAC04 == GivenDebit \in BadIds \/ GivenCredit \in BadIds
ViolatesAC03 == WithId(GivenDebit) = {} \/ WithId(GivenCredit) = {}
ViolatesCU01 ==
    /\ ~ViolatesAC03
    /\ \/ ~SameCurrency(LastWithId(GivenDebit).currency, LastWithId(GivenCredit).currency)
       \/ ~SameCurrency(LastWithId(GivenDebit).currency, GivenCurrency)
ViolatesAC02 == GivenDebit = GivenCredit
ViolatesAC01 ==
    /\ ~ViolatesAC03
    /\ IsDigitAmount(GivenAmount)
    /\ LastWithId(GivenDebit).balance < AmountValue(GivenAmount)
ViolatesDT01 == HasDateClause /\ ~IsCalendarDate(GivenDate)

CheckOrder ==
    << <<"AM02", ViolatesAM02>>, <<"AM01", ViolatesAM01>>, <<"CU02", ViolatesCU02>>,
       <<"AC04", ViolatesAC04>>, <<"AC03", ViolatesAC03>>, <<"CU01", ViolatesCU01>>,
       <<"AC02", ViolatesAC02>>, <<"AC01", ViolatesAC01>>, <<"DT01", ViolatesDT01>> >>

Violated == {k \in 1..Len(CheckOrder) : CheckOrder[k][2]}
EarliestViolated == CheckOrder[CHOOSE k \in Violated : \A j \in Violated : k <= j][1]

\* C4: when a grammatical request violates two or more of the checks AM02,
\* AM01, CU02, AC04, AC03, CU01, AC02, AC01, DT01, the result is failed with
\* the code of the earliest violated check in this order.
C4_FirstFailingCheckWins ==
    (Returned /\ Grammatical /\ Cardinality(Violated) >= 2)
        => /\ R.status = "failed"
           /\ R.status_code = EarliestViolated

C4_Witness ==
    /\ Returned
    /\ Grammatical
    /\ ViolatesCU01 /\ ViolatesAC02 /\ ViolatesAC01 /\ ViolatesDT01
    /\ R.status_code = "CU01"

-----------------------------------------------------------------------------
(* C7 - C9: funds, the settlement decision, the date check *)

EarlierChecksPass ==
    /\ ~ViolatesAM02 /\ ~ViolatesAM01 /\ ~ViolatesCU02 /\ ~ViolatesAC04
    /\ ~ViolatesAC03 /\ ~ViolatesCU01 /\ ~ViolatesAC02

\* C7: when the checks before AC01 pass and the debit account (the account
\* the lookup keeps for the debit id) holds less than the amount, the result
\* is failed / AC01 whatever the date clause is; no AP01 result is given for
\* an underfunded debit account.
C7_FundsCheckedBeforeDate ==
    (Returned /\ Grammatical)
        => /\ (EarlierChecksPass /\ ViolatesAC01)
                 => (R.status = "failed" /\ R.status_code = "AC01")
           /\ (R.status_code = "AP01") => ~ViolatesAC01

C7_Witness ==
    /\ Returned
    /\ Grammatical
    /\ EarlierChecksPass /\ ViolatesAC01
    /\ HasDateClause /\ GivenDate = D_NextYear
    /\ R.status_code = "AC01"

\* The balances of an immediate settlement
BalancesApplied ==
    /\ Len(R.accounts) = Len(NamedAccounts)
    /\ \A i \in 1..Len(R.accounts) :
          /\ R.accounts[i].id = NamedAccounts[i].id
          /\ R.accounts[i].balance_before = NamedAccounts[i].balance
          /\ R.accounts[i].balance =
                IF R.accounts[i].id = GivenDebit
                THEN NamedAccounts[i].balance - AmountValue(GivenAmount)
                ELSE NamedAccounts[i].balance + AmountValue(GivenAmount)

AllChecksPass ==
    /\ EarlierChecksPass
    /\ ~ViolatesAC01
    /\ HasDateClause => IsCalendarDate(GivenDate)

\* C8: for a request that passes every check, a date later than the clock's
\* day gives pending / AP01 with execute_by the supplied date; a date equal to
\* or before the clock's day gives successful / AP00 with the balances
\* applied; no date clause gives AP00 with execute_by null.
C8_SettlementDecision ==
    (Returned /\ Grammatical /\ AllChecksPass)
        => IF ~HasDateClause
           THEN /\ R.status = "successful" /\ R.status_code = "AP00"
                /\ IsNull(R.execute_by)
                /\ BalancesApplied
           ELSE IF LaterDay(CalendarDay(GivenDate), today)
           THEN /\ R.status = "pending" /\ R.status_code = "AP01"
                /\ R.execute_by = Some(GivenDate)
           ELSE /\ R.status = "successful" /\ R.status_code = "AP00"
                /\ BalancesApplied

C8_Witness ==
    /\ Returned
    /\ Grammatical
    /\ AllChecksPass
    /\ HasDateClause
    /\ CalendarDay(GivenDate) = today
    /\ R.status_code = "AP00"
    /\ \E i \in 1..Len(R.accounts) : R.accounts[i].balance # R.accounts[i].balance_before

\* C9: with a date clause whose date token is not a calendar date, a request
\* that passes the checks before the date check ends failed / DT01 with the
\* named accounts unchanged, and no such request ends AP00 or AP01.
C9_InvalidDateRejected ==
    (Returned /\ Grammatical /\ HasDateClause /\ ~IsCalendarDate(GivenDate))
        => /\ R.status_code \notin {"AP00", "AP01"}
           /\ (EarlierChecksPass /\ ~ViolatesAC01)
                 => /\ R.status = "failed" /\ R.status_code = "DT01"
                    /\ Len(R.accounts) = Len(NamedAccounts)
                    /\ \A i \in 1..Len(R.accounts) :
                          /\ R.accounts[i].balance = NamedAccounts[i].balance
                          /\ R.accounts[i].balance_before = NamedAccounts[i].balance

-----------------------------------------------------------------------------
(* C10: the grammar matcher *)

DebitCreditOpeners == {W_DEBIT, Str_debit, W_CREDIT, Str_Credit}
SendTransferOpeners == {W_SEND, Str_send, W_TRANSFER}
OnMarkers == {W_ON, Str_on}

GrammarFailed(code) ==
    /\ R.status = "failed"
    /\ R.status_code = code
    /\ R.accounts = <<>>

\* C10: an empty token sequence gives SY03; an opener other than DEBIT or
\* CREDIT gives SY01 when it is SEND or TRANSFER and SY03 otherwise, whatever
\* the token count; after a DEBIT or CREDIT opener fewer than 11 tokens give
\* SY01, a count other than 11 or 13 gives SY02, and 13 tokens whose token 11
\* is not ON give SY02; each of these results is failed with no accounts.
C10_GrammarClassification ==
    (Returned /\ words \in GrammarSentences)
        => LET n == Len(words)
           IN  IF n = 0 THEN GrammarFailed("SY03")
               ELSE IF words[1] \notin DebitCreditOpeners
               THEN IF words[1] \in SendTransferOpeners
                    THEN GrammarFailed("SY01")
                    ELSE GrammarFailed("SY03")
               ELSE IF n < 11 THEN GrammarFailed("SY01")
               ELSE IF n # 11 /\ n # 13 THEN GrammarFailed("SY02")
               ELSE IF n = 13 /\ words[12] \notin OnMarkers THEN GrammarFailed("SY02")
               ELSE TRUE

C10_Witness ==
    /\ Returned
    /\ Len(words) = 13
    /\ words[1] = Str_send
    /\ words[12] = W_ON
    /\ R.status_code = "SY01"
    /\ Len(accounts) = 2

-----------------------------------------------------------------------------
(* C11: the keyword templates and letter case *)

\* The spellings of a word that differ only in letter case, and the word a
\* spelling stands for
SpellingsOf(w) == {WithStyle(w, st) : st \in Styles}
CaseVocabulary == {W_DEBIT, W_CREDIT, W_FROM, W_TO, W_FOR, W_ACCOUNT, W_ON, USD}
Canonical(w) ==
    IF \E v \in CaseVocabulary : w \in SpellingsOf(v)
    THEN CHOOSE v \in CaseVocabulary : w \in SpellingsOf(v)
    ELSE w

\* The request with its opener, keywords and currency in upper case
CanonicalWords ==
    [i \in 1..Len(words) |->
        IF i \in StyledPositions THEN Canonical(words[i]) ELSE words[i]]

CaseForm == Canonical(words[1])
CaseDebit == IF CaseForm = W_DEBIT THEN words[6] ELSE words[11]
CaseCredit == IF CaseForm = W_DEBIT THEN words[11] ELSE words[6]

\* The template of each opener: DEBIT .. FROM ACCOUNT .. FOR CREDIT TO ACCOUNT,
\* CREDIT .. TO ACCOUNT .. FOR DEBIT FROM ACCOUNT
TemplateWord(type, p) ==
    CASE p = 4 -> IF type = W_DEBIT THEN W_FROM ELSE W_TO
      [] p = 5 -> W_ACCOUNT
      [] p = 7 -> W_FOR
      [] p = 8 -> IF type = W_DEBIT THEN W_CREDIT ELSE W_DEBIT
      [] p = 9 -> IF type = W_DEBIT THEN W_TO ELSE W_FROM
      [] p = 10 -> W_ACCOUNT

TemplateMatches ==
    \A p \in KeywordPositions : words[p] \in SpellingsOf(TemplateWord(CaseForm, p))

\* C11: for an 11- or 13-token instruction opening with DEBIT or CREDIT the
\* result is SY02 exactly when one of the six keyword tokens differs, letter
\* case aside, from the opener's template; the result is the one of the same
\* request with opener, keywords and currency in upper case; the account ids
\* are returned as written and looked up by exact comparison, so that an id
\* differing from a snapshot id only in case is not found (AC03).
C11_TemplatesIgnoreCase ==
    (Returned /\ words \in CaseSentences)
        => /\ (R.status_code = "SY02") <=> ~TemplateMatches
           /\ R = parseInstruction(
                     [accounts |-> accounts,
                      instruction |-> Some(Render(CanonicalWords, <<" ">>, <<>>))],
                     today)
           /\ TemplateMatches
                 => /\ R.debit_account = Some(CaseDebit)
                    /\ R.credit_account = Some(CaseCredit)
                    /\ (R.status_code = "AC03")
                          <=> (WithId(CaseDebit) = {} \/ WithId(CaseCredit) = {})

\* A lower-case request naming "A" over a snapshot that holds only "a"
C11_Witness ==
    /\ Returned
    /\ words \in CaseSentences
    /\ words[1] = WithStyle(W_DEBIT, "lower")
    /\ TemplateMatches
    /\ CaseDebit = Str_A
    /\ WithId(Str_A) = {} /\ WithId(Str_a) # {}
    /\ R.status_code = "AC03"
    /\ R.currency = Some(USD)

-----------------------------------------------------------------------------
(* C12: the shape of a result *)

ResultFields == {"type", "amount", "currency", "debit_account", "credit_account",
                 "execute_by", "status", "status_reason", "status_code", "accounts"}
StatusCodes == {"SY01", "SY02", "SY03", "AM01", "AM02", "CU01", "CU02",
                "AC01", "AC02", "AC03", "AC04", "DT01", "AP00", "AP01"}
NullableFields == {"type", "amount", "currency", "debit_account",
                   "credit_account", "execute_by"}

\* C12: every result carries the ten fields, each nullable field being null
\* or one value, and its status is the one its status code stands for:
\* 'successful' exactly for AP00, 'pending' exactly for AP01, 'failed' for
\* every other code.
C12_ResultShape ==
    Returned
        => /\ DOMAIN R = ResultFields
           /\ \A f \in NullableFields : Len(R[f]) <= 1
           /\ R.status_code \in StatusCodes
           /\ R.status \in {"successful", "pending", "failed"}
           /\ (R.status = "successful") <=> (R.status_code = "AP00")
           /\ (R.status = "pending") <=> (R.status_code = "AP01")

\* A grammar failure: the type is known, the fields after it are null
C12_Witness ==
    /\ Returned
    /\ R.status_code = "SY02"
    /\ R.status = "failed"
    /\ ~IsNull(R.type)
    /\ IsNull(R.amount) /\ IsNull(R.debit_account)

-----------------------------------------------------------------------------
(* C13: the involved accounts *)

LookupCodes == {"AC03", "CU01", "AC02", "AC01", "DT01", "AP00", "AP01"}

\* C13: once the lookup has run, the account records of the result are, in
\* snapshot order, exactly the snapshot accounts whose id is the debit or the
\* credit id, each once, with balance_before the snapshot balance; the result
\* is AC03 exactly when the debit id or the credit id is carried by no
\* snapshot account, and an AC03 result has balance = balance_before in every
\* record.
C13_InvolvedAccounts ==
    (Returned /\ words \in SettleSentences)
        => /\ R.status_code \in LookupCodes
           /\ Len(R.accounts) = Len(NamedAccounts)
           /\ \A i \in 1..Len(R.accounts) :
                 /\ R.accounts[i].id = NamedAccounts[i].id
                 /\ R.accounts[i].balance_before = NamedAccounts[i].balance
           /\ (R.status_code = "AC03")
                 <=> (WithId(GivenDebit) = {} \/ WithId(GivenCredit) = {})
           /\ R.status_code = "AC03"
                 => \A i \in 1..Len(R.accounts) :
                       R.accounts[i].balance = R.accounts[i].balance_before

\* The credit account is missing and the debit id is carried twice
C13_Witness ==
    /\ Returned
    /\ words \in SettleSentences
    /\ R.status_code = "AC03"
    /\ WithId(GivenCredit) = {}
    /\ Len(R.accounts) = 2

-----------------------------------------------------------------------------
(* C14: the accounts list of a field-validator failure, as the service      *)
(* function returns it                                                       *)

FieldCodes == {"AM02", "AM01", "CU02", "AC04"}

FirstWithId(id) == accounts[CHOOSE i \in WithId(id) : \A j \in WithId(id) : i <= j]

\* The record of a snapshot account with its balances and currency untouched
Untouched(acc) ==
    [ id |-> acc.id, balance |-> acc.balance,
      balance_before |-> acc.balance, currency |-> acc.currency ]

-----------------------------------------------------------------------------
(* C15: the currency of the account records *)

IsUpperCase(str) == \A i \in 1..Len(str) : str[i] \notin Range(LowerLetters)

\* C15: every account record of a result returned by parseInstruction or by
\* processPaymentInstruction has its currency in upper case.
C15_RecordCurrencyUpperCase ==
    Returned => \A i \in 1..Len(R.accounts) : IsUpperCase(R.accounts[i].currency)

-----------------------------------------------------------------------------
(* C16: the caller's snapshot *)

-----------------------------------------------------------------------------
(* C17: no state is kept between calls *)

SameInputs(c, d) ==
    /\ c.accounts = d.accounts
    /\ c.instruction = d.instruction
    /\ c.today = d.today

-----------------------------------------------------------------------------
(* C18: parseUtcDateOnly *)

\* The Gregorian calendar: the length of each month
GregorianLeap(y) == (y % 4 = 0 /\ y % 100 # 0) \/ y % 400 = 0
MonthLength(y, m) ==
    IF m = 2 THEN (IF GregorianLeap(y) THEN 29 ELSE 28)
    ELSE IF m \in {4, 6, 9, 11} THEN 30 ELSE 31
IsRealDay(ymd) == ymd[2] \in 1..12 /\ ymd[3] \in 1..MonthLength(ymd[1], ymd[2])

\* C18 (acceptance): a string is valid for parseUtcDateOnly exactly when it
\* has the form YYYY-MM-DD and names a day of the Gregorian calendar.
C18_AcceptsRealDays ==
    Returned
        => \A i \in 1..Len(dates) :
              parses[i].isValid <=> (dates[i].shaped /\ IsRealDay(dates[i].ymd))

\* C18: a string is valid for parseUtcDateOnly exactly when it has the form
\* YYYY-MM-DD and names a day of the Gregorian calendar, and the values
\* returned for two valid strings are ordered as the two days are.
C18_ValidDatesInCalendarOrder ==
    Returned
        => /\ \A i \in 1..Len(dates) :
                 parses[i].isValid <=> (dates[i].shaped /\ IsRealDay(dates[i].ymd))
           /\ \A i, j \in 1..Len(dates) :
                 (parses[i].isValid /\ parses[j].isValid)
                    => ((parses[i].value < parses[j].value)
                           <=> LaterDay(dates[j].ymd, dates[i].ymd))

-----------------------------------------------------------------------------
(* C19: the two sentence forms *)

\* The CREDIT form of a request written in the DEBIT form: the same amount,
\* currency, debit account, credit account and date clause
CreditFormOfWords ==
    CreditSentence(GivenAmount, GivenCurrency, GivenDebit, GivenCredit,
                   IF HasDateClause THEN Some(words[13]) ELSE Null)

WithoutType(res) == [res EXCEPT !.type = Null]

\* C19: a request in the DEBIT form and the request in the CREDIT form with
\* the same amount, currency, debit account, credit account, date clause and
\* snapshot get results that agree in every field but type, which is DEBIT
\* for the one and CREDIT for the other.
C19_FormsAgree ==
    (Returned /\ Grammatical /\ words[1] = W_DEBIT)
        => LET other == parseInstruction(
                            [accounts |-> accounts,
                             instruction |-> Some(Render(CreditFormOfWords, <<" ">>, <<>>))],
                            today)
           IN  /\ WithoutType(other) = WithoutType(R)
               /\ R.type = Some(W_DEBIT)
               /\ other.type = Some(W_CREDIT)

\* A settled transfer from a to b, written in the DEBIT form
C19_Witness ==
    /\ Returned
    /\ Grammatical
    /\ words[1] = W_DEBIT
    /\ GivenDebit = Str_a /\ GivenCredit = Str_b
    /\ R.status_code = "AP00"
    /\ R.accounts[1].balance < R.accounts[1].balance_before

-----------------------------------------------------------------------------
(* C20: a ledger run *)

\* C20: in a run that starts from a ledger with distinct ids and balances of
\* zero or more, calls parseInstruction with the ledger as the snapshot and
\* writes the balances of the AP00 results back, every ledger has the
\* accounts of the first one, no balance below zero, and the total of the
\* first one.
C20_LedgerSafe ==
    /\ Len(accounts) = Len(given)
    /\ \A i \in 1..Len(accounts) :
          /\ accounts[i].id = given[i].id
          /\ accounts[i].currency = given[i].currency
          /\ accounts[i].balance >= 0
    /\ SumOf(accounts, "balance") = SumOf(given, "balance")

\* A ledger after at least one transfer, in which an account has been emptied
C20_Witness ==
    /\ pc = "idle"
    /\ accounts # given
    /\ \E i \in 1..Len(accounts) : accounts[i].balance = 0 /\ given[i].balance > 0
    /\ \E i \in 1..Len(accounts) : accounts[i].balance > 5

====
